---- MODULE Spec2Model ----
(***************************************************************************)
(* Model of the weather query orchestrator of main.py: get_coordinates,    *)
(* fetch_current_weather, fetch_historical_weather and the exposed tool    *)
(* get_weather_data, together with the wall clock and the two HTTP         *)
(* collaborators (geocoding, forecast/archive) they depend on.             *)
(*                                                                         *)
(* Python strings are sequences of one-character strings, so that          *)
(* str.lower(), f-string formatting and strftime are modelled by what they *)
(* do to the characters.  Python dicts built by a literal are sequences of *)
(* <<key, value>> pairs in insertion order; JSON objects received from a   *)
(* collaborator are functions from keys to values.                         *)
(***************************************************************************)
EXTENDS Integers, Sequences, FiniteSets, TLC

(***************************************************************************)
(* Bounds of the model.                                                    *)
(***************************************************************************)
\* number of clock ticks in one calendar day
TicksPerDay == 2
\* number of ticks the wall clock may advance during a run
MaxTicks == 2

(***************************************************************************)
(* Python values.                                                          *)
(***************************************************************************)
\* Python's None, distinct from every string of characters
None == <<"<None>">>

\* the empty dict {}
EmptyDict == [k \in {} |-> 0]

\* truthiness of an Optional[str]: None and "" are falsy
Falsy(s) == s = None \/ s = <<>>

UpperLetters == <<"A", "B", "C", "D", "E", "F", "G", "H", "I", "J", "K", "L", "M", "N", "O", "P", "Q", "R", "S", "T", "U", "V", "W", "X", "Y", "Z">>

LowerLetters == <<"a", "b", "c", "d", "e", "f", "g", "h", "i", "j", "k", "l", "m", "n", "o", "p", "q", "r", "s", "t", "u", "v", "w", "x", "y", "z">>

LowerChar(c) ==
    IF \E i \in DOMAIN UpperLetters : UpperLetters[i] = c
    THEN LowerLetters[CHOOSE i \in DOMAIN UpperLetters : UpperLetters[i] = c]
    ELSE c

\* a lower() that leaves every character as it is
LowerIdentity(s) == s

\* str.lower()
Lower(s) == [i \in DOMAIN s |-> LowerChar(s[i])]

\* needle in hay
Contains(hay, needle) ==
    \E i \in 0..(Len(hay) - Len(needle)) :
        SubSeq(hay, i + 1, i + Len(needle)) = needle

(***************************************************************************)
(* The calendar: datetime arithmetic and strftime("%Y-%m-%d").             *)
(* Day ordinal 0 is 2024-01-01.                                            *)
(***************************************************************************)
IsLeap(y) == (y % 4 = 0 /\ y % 100 # 0) \/ y % 400 = 0

DaysInYear(y) == IF IsLeap(y) THEN 366 ELSE 365

DaysInMonth(y, m) ==
    IF m = 2 THEN (IF IsLeap(y) THEN 29 ELSE 28)
    ELSE IF m \in {4, 6, 9, 11} THEN 30 ELSE 31

RECURSIVE YearOf(_, _)
YearOf(n, y) == IF n >= DaysInYear(y) THEN YearOf(n - DaysInYear(y), y + 1) ELSE y

RECURSIVE DayOfYear(_, _)
DayOfYear(n, y) == IF n >= DaysInYear(y) THEN DayOfYear(n - DaysInYear(y), y + 1) ELSE n

RECURSIVE MonthOf(_, _, _)
MonthOf(n, y, m) == IF n >= DaysInMonth(y, m) THEN MonthOf(n - DaysInMonth(y, m), y, m + 1) ELSE m

RECURSIVE DayOfMonth(_, _, _)
DayOfMonth(n, y, m) == IF n >= DaysInMonth(y, m) THEN DayOfMonth(n - DaysInMonth(y, m), y, m + 1) ELSE n + 1

Digits == <<"0", "1", "2", "3", "4", "5", "6", "7", "8", "9">>

Pad2(n) == <<Digits[((n \div 10) % 10) + 1], Digits[(n % 10) + 1]>>

Pad4(n) == <<Digits[((n \div 1000) % 10) + 1], Digits[((n \div 100) % 10) + 1]>> \o Pad2(n)

\* date.strftime("%Y-%m-%d") of the day with ordinal n
Strftime(n) ==
    LET y == YearOf(n, 2024)
        d == DayOfYear(n, 2024)
    IN  Pad4(y) \o <<"-">> \o Pad2(MonthOf(d, y, 1)) \o <<"-">> \o Pad2(DayOfMonth(d, y, 1))

\* the calendar day of a clock value
DayOf(t) == t \div TicksPerDay

\* datetime.isoformat(): the date, "T", and the time of day
Isoformat(t) == Strftime(DayOf(t)) \o <<"T">> \o Pad2(t % TicksPerDay)

\* timedelta(days=1) of the end_date default
EndDefaultDays == 1

\* timedelta(days=30) of the start_date default
StartDefaultDays == 30

\* (datetime.now() - timedelta(days=k)).strftime("%Y-%m-%d")
DaysAgo(t, k) == Strftime(DayOf(t) - k)

(***************************************************************************)
(* Text of the program and of the callers' and collaborators' inputs.      *)
(***************************************************************************)
QT_current == <<"c", "u", "r", "r", "e", "n", "t">>

QT_historical == <<"h", "i", "s", "t", "o", "r", "i", "c", "a", "l">>

GeocodingPrefix == <<"G", "e", "o", "c", "o", "d", "i", "n", "g", " ", "e", "r", "r", "o", "r", ":", " ">>

WeatherPrefix == <<"W", "e", "a", "t", "h", "e", "r", " ", "A", "P", "I", " ", "e", "r", "r", "o", "r", ":", " ">>

HistoricalPrefix == <<"H", "i", "s", "t", "o", "r", "i", "c", "a", "l", " ", "w", "e", "a", "t", "h", "e", "r", " ", "A", "P", "I", " ", "e", "r", "r", "o", "r", ":", " ">>

CityPrefix == <<"C", "i", "t", "y", " ", "'">>

CitySuffix == <<"'", " ", "n", "o", "t", " ", "f", "o", "u", "n", "d">>

InvalidPrefix == <<"I", "n", "v", "a", "l", "i", "d", " ", "q", "u", "e", "r", "y", "_", "t", "y", "p", "e", ":", " ">>

InvalidSuffix == <<".", " ", "M", "u", "s", "t", " ", "b", "e", " ", "'", "c", "u", "r", "r", "e", "n", "t", "'", " ", "o", "r", " ", "'", "h", "i", "s", "t", "o", "r", "i", "c", "a", "l", "'">>

\* the message without the name of the city
CityNotFoundMsgNoName(city) == CityPrefix \o CitySuffix

\* f"City '{city_name}' not found"
CityNotFoundMsg(city) == CityPrefix \o city \o CitySuffix

\* f"Invalid query_type: {query_type}. Must be 'current' or 'historical'"
InvalidQueryTypeMsg(qt) == InvalidPrefix \o qt \o InvalidSuffix

\* str(KeyError(key)): the repr of the missing key
KeyErrorMsg(key) ==
    CASE key = "latitude"  -> <<"'", "l", "a", "t", "i", "t", "u", "d", "e", "'">>
      [] key = "longitude" -> <<"'", "l", "o", "n", "g", "i", "t", "u", "d", "e", "'">>
      [] key = "name"      -> <<"'", "n", "a", "m", "e", "'">>
      [] key = "current"   -> <<"'", "c", "u", "r", "r", "e", "n", "t", "'">>
      [] key = "daily"     -> <<"'", "d", "a", "i", "l", "y", "'">>

\* d[key] of a dict built by a literal
Item(d, key) == d[CHOOSE i \in DOMAIN d : d[i][1] = key][2]

\* dict.get(key, default)
DictGet(d, key, default) == IF key \in DOMAIN d THEN d[key] ELSE default

(***************************************************************************)
(* Inputs of the tool: the arguments a caller may pass.                    *)
(***************************************************************************)
Rome == <<"R", "o", "m", "e">>

Cities == {Rome, <<>>}

QueryTypes ==
    { QT_current,
      <<"C", "U", "R", "R", "E", "N", "T">>,
      QT_historical,
      <<"h", "I", "s", "T", "o", "R", "i", "C", "a", "L">>,
      <<"F", "o", "r", "e", "c", "a", "s", "t">>,
      <<"c", "u", "r", "r", "e", "n", "t", "s">>,
      <<>> }

MalformedDate == <<"1", "3", "/", "4", "5">>

StartDates == {None, <<>>, Strftime(4), MalformedDate}

EndDates == {None, <<>>, Strftime(14), MalformedDate}

(***************************************************************************)
(* The collaborators: what one HTTP exchange can produce.  fail names the  *)
(* call that raises ("get": requests.get, "status": raise_for_status,      *)
(* "json": response.json, "none": a JSON object is delivered in data).     *)
(***************************************************************************)
Response(fail, msg, data) == [fail |-> fail, msg |-> msg, data |-> data]

NoResponse == Response("unset", <<>>, EmptyDict)

TimeoutMsg == <<"t", "i", "m", "e", "o", "u", "t">>

StatusMsg == <<"5", "0", "3", " ", "S", "e", "r", "v", "e", "r", " ", "E", "r", "r", "o", "r">>

DecodeMsg == <<"E", "x", "p", "e", "c", "t", "i", "n", "g", " ", "v", "a", "l", "u", "e">>

FullMatch == [latitude |-> 41, longitude |-> 12, name |-> Rome,
              country |-> <<"I", "T">>, admin1 |-> <<"L", "a", "z", "i", "o">>]

BareMatch == [latitude |-> 41, longitude |-> 12, name |-> Rome]

PartialMatch == [latitude |-> 41, name |-> Rome]

GeoResponses ==
    { Response("get", TimeoutMsg, EmptyDict),
      Response("json", DecodeMsg, EmptyDict),
      Response("none", <<>>, [generationtime_ms |-> 1]),
      Response("none", <<>>, [results |-> <<>>]),
      Response("none", <<>>, [results |-> <<FullMatch>>]),
      Response("none", <<>>, [results |-> <<BareMatch>>]),
      Response("none", <<>>, [results |-> <<PartialMatch>>]) }

CurrentBlock == [temperature_2m |-> 21]

CurrentUnits == [temperature_2m |-> <<"C">>]

DailyBlock == [temperature_2m_max |-> <<25, 26>>]

DailyUnits == [temperature_2m_max |-> <<"C">>]

ForecastResponses ==
    { Response("get", TimeoutMsg, EmptyDict),
      Response("status", StatusMsg, EmptyDict),
      Response("none", <<>>, [current |-> CurrentBlock, current_units |-> CurrentUnits]),
      Response("none", <<>>, [current |-> CurrentBlock]),
      Response("none", <<>>, [current_units |-> CurrentUnits]) }

ArchiveResponses ==
    { Response("get", TimeoutMsg, EmptyDict),
      Response("status", StatusMsg, EmptyDict),
      Response("none", <<>>, [daily |-> DailyBlock, daily_units |-> DailyUnits]),
      Response("none", <<>>, [daily |-> DailyBlock]),
      Response("none", <<>>, [daily_units |-> DailyUnits]) }

(***************************************************************************)
(* Exceptions.                                                             *)
(***************************************************************************)
Exc(type, msg) == [raised |-> TRUE, type |-> type, msg |-> msg]

NoExc == [raised |-> FALSE, type |-> "", msg |-> <<>>]

\* the exception class raised by each failing step of an HTTP exchange
RaisedBy(fail) ==
    CASE fail = "get"    -> "ConnectionError"
      [] fail = "status" -> "HTTPError"
      [] fail = "json"   -> "JSONDecodeError"

\* an except clause that matches only the exceptions the program raises itself
ExceptOwnOnly(type) == type \in {"Exception", "ValueError"}

\* "except Exception": the classes the clause matches
ExceptException(type) ==
    type \in {"Exception", "ValueError", "KeyError", "ConnectionError",
              "HTTPError", "JSONDecodeError"}

(***************************************************************************)
(* get_coordinates.  The outcome is what the call hands to its caller:     *)
(* either a raised exception (exc) or a value; inner is the exception that *)
(* was raised inside the try block, if any.                                *)
(***************************************************************************)
Outcome(exc, value, inner) == [exc |-> exc, value |-> value, inner |-> inner]

GeocodingParams(city) ==
    [name |-> city, count |-> 1, language |-> "en", format |-> "json"]

\* lines 35-44: the match taken from the JSON body
FirstMatch(data) ==
    IF "results" \in DOMAIN data /\ Len(data["results"]) > 0
    THEN LET result == data["results"][1]
         IN  IF "latitude" \notin DOMAIN result
                 THEN Outcome(Exc("KeyError", KeyErrorMsg("latitude")), None, NoExc)
             ELSE IF "longitude" \notin DOMAIN result
                 THEN Outcome(Exc("KeyError", KeyErrorMsg("longitude")), None, NoExc)
             ELSE IF "name" \notin DOMAIN result
                 THEN Outcome(Exc("KeyError", KeyErrorMsg("name")), None, NoExc)
             ELSE Outcome(NoExc,
                          << <<"latitude", result["latitude"]>>,
                             <<"longitude", result["longitude"]>>,
                             <<"name", result["name"]>>,
                             <<"country", DictGet(result, "country", <<>>)>>,
                             <<"admin1", DictGet(result, "admin1", <<>>)>> >>,
                          NoExc)
    ELSE Outcome(NoExc, None, NoExc)

\* the re-raise without the text of the original exception
GeocodingErrorNoText(e) == Exc("Exception", GeocodingPrefix)

\* line 46: raise Exception(f"Geocoding error: {str(e)}")
GeocodingError(e) == Exc("Exception", GeocodingPrefix \o e.msg)

\* a resolver that falls back to a fixed location when the exchange fails
GetCoordinatesFallback(resp) ==
    LET body == IF resp.fail # "none"
                THEN Outcome(Exc(RaisedBy(resp.fail), resp.msg), None, NoExc)
                ELSE FirstMatch(resp.data)
    IN  IF body.exc.raised
        THEN Outcome(NoExc,
                     << <<"latitude", 0>>, <<"longitude", 0>>, <<"name", <<>> >>,
                        <<"country", <<>> >>, <<"admin1", <<>> >> >>,
                     NoExc)
        ELSE body

GetCoordinates(resp) ==
    LET body == IF resp.fail # "none"
                THEN Outcome(Exc(RaisedBy(resp.fail), resp.msg), None, NoExc)
                ELSE FirstMatch(resp.data)
    IN  IF body.exc.raised /\ ExceptException(body.exc.type)
        THEN Outcome(GeocodingError(body.exc), None, body.exc)
        ELSE body

(***************************************************************************)
(* The envelopes built by the fetchers and the entry point.                *)
(***************************************************************************)
LocationBlock(location) ==
    << <<"city", Item(location, "name")>>,
       <<"country", Item(location, "country")>>,
       <<"region", Item(location, "admin1")>>,
       <<"latitude", Item(location, "latitude")>>,
       <<"longitude", Item(location, "longitude")>> >>

CurrentFields ==
    <<"temperature_2m", "relative_humidity_2m", "apparent_temperature",
      "precipitation", "rain", "snowfall", "weather_code", "cloud_cover",
      "pressure_msl", "surface_pressure", "wind_speed_10m",
      "wind_direction_10m", "wind_gusts_10m">>

DailyFields ==
    <<"weather_code", "temperature_2m_max", "temperature_2m_min",
      "temperature_2m_mean", "apparent_temperature_max",
      "apparent_temperature_min", "apparent_temperature_mean", "sunrise",
      "sunset", "precipitation_sum", "rain_sum", "snowfall_sum",
      "precipitation_hours", "wind_speed_10m_max", "wind_gusts_10m_max",
      "wind_direction_10m_dominant", "shortwave_radiation_sum">>

ForecastParams(location) ==
    [latitude |-> Item(location, "latitude"), longitude |-> Item(location, "longitude"),
     current |-> CurrentFields, temperature_unit |-> "celsius",
     wind_speed_unit |-> "kmh", precipitation_unit |-> "mm"]

ArchiveParams(location, start, end) ==
    [latitude |-> Item(location, "latitude"), longitude |-> Item(location, "longitude"),
     start_date |-> start, end_date |-> end,
     daily |-> DailyFields, temperature_unit |-> "celsius",
     wind_speed_unit |-> "kmh", precipitation_unit |-> "mm"]

\* lines 94-105
CurrentEnvelope(location, data, now) ==
    << <<"location", LocationBlock(location)>>,
       <<"current", data["current"]>>,
       <<"units", DictGet(data, "current_units", EmptyDict)>>,
       <<"timestamp", Isoformat(now)>> >>

\* lines 173-188
HistoricalEnvelope(location, start, end, data, now) ==
    << <<"location", LocationBlock(location)>>,
       <<"date_range", << <<"start", start>>, <<"end", end>> >> >>,
       <<"daily", data["daily"]>>,
       <<"units", DictGet(data, "daily_units", EmptyDict)>>,
       <<"timestamp", Isoformat(now)>> >>

\* an error response that echoes the normalised query_type
ErrorResponseLowered(e, city, qt) ==
    << <<"error", e.msg>>, <<"city_name", city>>, <<"query_type", Lower(qt)>> >>

\* lines 233-237
ErrorResponse(e, city, qt) ==
    << <<"error", e.msg>>, <<"city_name", city>>, <<"query_type", qt>> >>

\* line 107: raise Exception(f"Weather API error: {str(e)}")
WeatherError(e) == Exc("Exception", WeatherPrefix \o e.msg)

\* line 190: raise Exception(f"Historical weather API error: {str(e)}")
HistoricalError(e) == Exc("Exception", HistoricalPrefix \o e.msg)

(***************************************************************************)
(* json.dumps of a dict and json.loads of its output, at the level of the  *)
(* top-level object: a string of tokens { key : value , ... }.             *)
(***************************************************************************)
Tok(t, v) == [t |-> t, v |-> v]

JsonDumps(d) ==
    IF Len(d) = 0
    THEN <<Tok("{", <<>>), Tok("}", <<>>)>>
    ELSE <<Tok("{", <<>>)>> \o
         [i \in 1..(4 * Len(d)) |->
            LET pair == d[((i - 1) \div 4) + 1]
                r    == (i - 1) % 4
            IN  CASE r = 0 -> Tok("key", pair[1])
                  [] r = 1 -> Tok(":", <<>>)
                  [] r = 2 -> Tok("value", pair[2])
                  [] r = 3 -> IF i = 4 * Len(d) THEN Tok("}", <<>>) ELSE Tok(",", <<>>)]

\* the text is one JSON object
IsJsonObject(s) ==
    /\ Len(s) >= 2
    /\ s[1].t = "{"
    /\ s[Len(s)].t = "}"
    /\ \/ Len(s) = 2
       \/ /\ (Len(s) - 1) % 4 = 0
          /\ \A i \in 2..(Len(s) - 1) :
                LET r == (i - 2) % 4
                IN  s[i].t = (CASE r = 0 -> "key" [] r = 1 -> ":"
                                [] r = 2 -> "value" [] r = 3 -> ",")

\* json.loads of a JSON object: the mapping from its keys to their values
JsonLoads(s) ==
    LET keyAt == {i \in 2..(Len(s) - 1) : s[i].t = "key"}
    IN  [k \in {s[i].v : i \in keyAt} |->
            s[(CHOOSE i \in keyAt : s[i].v = k) + 2].v]

(***************************************************************************)
(* State.                                                                  *)
(***************************************************************************)
VARIABLES
    pc,          \* position of the invocation of get_weather_data
    city_name,   \* arguments of get_weather_data
    query_type,
    start_date,
    end_date,
    h_start,     \* start_date and end_date of fetch_historical_weather
    h_end,
    location,    \* location of the running fetcher
    data,        \* data of get_weather_data: the dict the fetcher returned
    exc,         \* the exception propagating to get_weather_data
    result,      \* the string get_weather_data returned
    escaped,     \* an exception left get_weather_data
    clock,       \* the wall clock datetime.now() reads
    ticks,       \* how often the clock has advanced
    calls,       \* history: the HTTP calls issued by this invocation
    geoResp,     \* history: what the geocoding collaborator answered
    wxResp,      \* history: what the weather collaborator answered
    nowReads,    \* history: the datetime.now() reads of this invocation
    origin,      \* history: the exception first raised in this invocation
    caught,      \* history: the functions whose except clause ran
    entered,     \* history: the fetcher that dispatch entered
    prev         \* history: the previous invocation with the same arguments

vars == <<pc, city_name, query_type, start_date, end_date, h_start, h_end,
          location, data, exc, result, escaped, clock, ticks, calls,
          geoResp, wxResp, nowReads, origin, caught, entered, prev>>

NoPrev == [set |-> FALSE, geo |-> NoResponse, wx |-> NoResponse, result |-> None]

\* the clock values at which a run may start: 2024-03-01 at the first tick
\* of the day, 2024-12-31 at the last
StartClocks == {60 * TicksPerDay, 365 * TicksPerDay + (TicksPerDay - 1)}

NoLocals ==
    /\ h_start = None /\ h_end = None /\ location = None /\ data = <<>>
    /\ exc = NoExc /\ result = None /\ escaped = FALSE
    /\ calls = <<>> /\ geoResp = NoResponse /\ wxResp = NoResponse
    /\ nowReads = <<>> /\ origin = NoExc /\ caught = <<>> /\ entered = "none"

Init ==
    /\ pc = "idle"
    /\ city_name = <<>> /\ query_type = QT_current
    /\ start_date = None /\ end_date = None
    /\ NoLocals
    /\ clock \in StartClocks
    /\ ticks = 0
    /\ prev = NoPrev

(***************************************************************************)
(* The wall clock advances on its own.                                     *)
(***************************************************************************)
Tick ==
    /\ ticks < MaxTicks
    /\ clock' = clock + 1
    /\ ticks' = ticks + 1
    /\ UNCHANGED <<pc, city_name, query_type, start_date, end_date, h_start,
                   h_end, location, data, exc, result, escaped, calls,
                   geoResp, wxResp, nowReads, origin, caught, entered, prev>>

(***************************************************************************)
(* get_weather_data is called (lines 192-198).                             *)
(***************************************************************************)
Enter ==
    /\ pc' = "dispatch"
    /\ h_start' = None /\ h_end' = None /\ location' = None /\ data' = <<>>
    /\ exc' = NoExc /\ result' = None /\ escaped' = FALSE
    /\ calls' = <<>> /\ geoResp' = NoResponse /\ wxResp' = NoResponse
    /\ nowReads' = <<>> /\ origin' = NoExc /\ caught' = <<>> /\ entered' = "none"
    /\ UNCHANGED <<clock, ticks>>

Invoke ==
    /\ pc \in {"idle", "done"}
    /\ city_name' \in Cities
    /\ query_type' \in QueryTypes
    /\ start_date' \in StartDates
    /\ end_date' \in EndDates
    /\ prev' = NoPrev
    /\ Enter

(***************************************************************************)
(* Lines 222-228: dispatch on query_type.                                  *)
(***************************************************************************)
\* a dispatch that accepts every value starting with "current"
IsCurrentPrefix(qt) ==
    /\ Len(qt) >= Len(QT_current)
    /\ SubSeq(Lower(qt), 1, Len(QT_current)) = QT_current

IsCurrent(qt) == Lower(qt) = QT_current

IsHistorical(qt) == Lower(qt) = QT_historical

Dispatch ==
    /\ pc = "dispatch"
    /\ IF IsCurrent(query_type)
       THEN /\ pc' = "cur_geo" /\ entered' = "fetch_current_weather"
            /\ UNCHANGED <<h_start, h_end, exc, origin>>
       ELSE IF IsHistorical(query_type)
       THEN /\ pc' = "hist_geo" /\ entered' = "fetch_historical_weather"
            /\ h_start' = start_date /\ h_end' = end_date
            /\ UNCHANGED <<exc, origin>>
       ELSE /\ pc' = "except"
            /\ exc' = Exc("ValueError", InvalidQueryTypeMsg(query_type))
            /\ origin' = exc'
            /\ UNCHANGED <<h_start, h_end, entered>>
    /\ UNCHANGED <<city_name, query_type, start_date, end_date, location,
                   data, result, escaped, clock, ticks, calls, geoResp,
                   wxResp, nowReads, caught, prev>>

(***************************************************************************)
(* Lines 59-62 and 126-129: the fetcher resolves the city.                 *)
(***************************************************************************)
Resolve(here, next) ==
    /\ pc = here
    /\ \E resp \in GeoResponses :
         LET r == GetCoordinates(resp)
         IN  /\ geoResp' = resp
             /\ calls' = Append(calls, [endpoint |-> "geocoding",
                                        params |-> GeocodingParams(city_name)])
             /\ IF r.exc.raised
                THEN /\ exc' = r.exc
                     /\ origin' = IF r.inner.raised THEN r.inner ELSE r.exc
                     /\ caught' = IF r.inner.raised
                                  THEN Append(caught, "get_coordinates")
                                  ELSE caught
                     /\ pc' = "except"
                     /\ UNCHANGED location
                ELSE IF r.value = None
                THEN /\ exc' = Exc("ValueError", CityNotFoundMsg(city_name))
                     /\ origin' = exc'
                     /\ pc' = "except"
                     /\ UNCHANGED <<location, caught>>
                ELSE /\ location' = r.value
                     /\ pc' = next
                     /\ UNCHANGED <<exc, origin, caught>>
    /\ UNCHANGED <<city_name, query_type, start_date, end_date, h_start,
                   h_end, data, result, escaped, clock, ticks, wxResp,
                   nowReads, entered, prev>>

FetchCurrentResolve == Resolve("cur_geo", "cur_wx")

FetchHistoricalResolve == Resolve("hist_geo", "hist_end")

(***************************************************************************)
(* Lines 64-107: fetch_current_weather asks the forecast endpoint.         *)
(***************************************************************************)
\* the try block of lines 89-105 and 168-188: the exception it raises
RequestRaises(resp, key) ==
    IF resp.fail # "none" THEN Exc(RaisedBy(resp.fail), resp.msg)
    ELSE IF key \notin DOMAIN resp.data THEN Exc("KeyError", KeyErrorMsg(key))
    ELSE NoExc

FetchCurrentRequest ==
    /\ pc = "cur_wx"
    /\ \E resp \in ForecastResponses :
         LET e == RequestRaises(resp, "current")
         IN  /\ wxResp' = resp
             /\ calls' = Append(calls, [endpoint |-> "forecast",
                                        params |-> ForecastParams(location)])
             /\ IF e.raised
                THEN IF ExceptException(e.type)
                     THEN /\ exc' = WeatherError(e)
                          /\ caught' = Append(caught, "fetch_current_weather")
                     ELSE /\ exc' = e
                          /\ UNCHANGED caught
                ELSE UNCHANGED <<exc, caught>>
             /\ origin' = e
             /\ IF e.raised
                THEN /\ pc' = "except"
                     /\ UNCHANGED <<data, nowReads>>
                ELSE /\ pc' = "dumps"
                     /\ data' = CurrentEnvelope(location, resp.data, clock)
                     /\ nowReads' = Append(nowReads, [site |-> "timestamp", at |-> clock])
    /\ UNCHANGED <<city_name, query_type, start_date, end_date, h_start,
                   h_end, location, result, escaped, clock, ticks, geoResp,
                   entered, prev>>

(***************************************************************************)
(* Lines 131-135: fetch_historical_weather defaults the dates, each from   *)
(* its own datetime.now().                                                 *)
(***************************************************************************)
\* an end_date default that overrides what the caller supplied
DefaultEndAlways(end, now) == DaysAgo(now, EndDefaultDays)

DefaultEnd(end, now) == IF Falsy(end) THEN DaysAgo(now, EndDefaultDays) ELSE end

\* a start_date default computed with the timedelta of the end_date default
DefaultStartWrongDelta(start, now) ==
    IF Falsy(start) THEN DaysAgo(now, EndDefaultDays) ELSE start

DefaultStart(start, now) == IF Falsy(start) THEN DaysAgo(now, StartDefaultDays) ELSE start

HistEndDefault ==
    /\ pc = "hist_end"
    /\ h_end' = DefaultEnd(h_end, clock)
    /\ nowReads' = IF Falsy(h_end)
                   THEN Append(nowReads, [site |-> "end_date", at |-> clock])
                   ELSE nowReads
    /\ pc' = "hist_start"
    /\ UNCHANGED <<city_name, query_type, start_date, end_date, h_start,
                   location, data, exc, result, escaped, clock, ticks, calls,
                   geoResp, wxResp, origin, caught, entered, prev>>

HistStartDefault ==
    /\ pc = "hist_start"
    /\ h_start' = DefaultStart(h_start, clock)
    /\ nowReads' = IF Falsy(h_start)
                   THEN Append(nowReads, [site |-> "start_date", at |-> clock])
                   ELSE nowReads
    /\ pc' = "hist_wx"
    /\ UNCHANGED <<city_name, query_type, start_date, end_date, h_end,
                   location, data, exc, result, escaped, clock, ticks, calls,
                   geoResp, wxResp, origin, caught, entered, prev>>

(***************************************************************************)
(* Lines 137-190: fetch_historical_weather asks the archive endpoint.      *)
(***************************************************************************)
FetchHistoricalRequest ==
    /\ pc = "hist_wx"
    /\ \E resp \in ArchiveResponses :
         LET e == RequestRaises(resp, "daily")
         IN  /\ wxResp' = resp
             /\ calls' = Append(calls, [endpoint |-> "archive",
                                        params |-> ArchiveParams(location, h_start, h_end)])
             /\ IF e.raised
                THEN IF ExceptException(e.type)
                     THEN /\ exc' = HistoricalError(e)
                          /\ caught' = Append(caught, "fetch_historical_weather")
                     ELSE /\ exc' = e
                          /\ UNCHANGED caught
                ELSE UNCHANGED <<exc, caught>>
             /\ origin' = e
             /\ IF e.raised
                THEN /\ pc' = "except"
                     /\ UNCHANGED <<data, nowReads>>
                ELSE /\ pc' = "dumps"
                     /\ data' = HistoricalEnvelope(location, h_start, h_end, resp.data, clock)
                     /\ nowReads' = Append(nowReads, [site |-> "timestamp", at |-> clock])
    /\ UNCHANGED <<city_name, query_type, start_date, end_date, h_start,
                   h_end, location, result, escaped, clock, ticks, geoResp,
                   entered, prev>>

(***************************************************************************)
(* Line 230: the fetcher returned, get_weather_data returns its JSON.      *)
(***************************************************************************)
ReturnData ==
    /\ pc = "dumps"
    /\ result' = JsonDumps(data)
    /\ pc' = "done"
    /\ UNCHANGED <<city_name, query_type, start_date, end_date, h_start,
                   h_end, location, data, exc, escaped, clock, ticks, calls,
                   geoResp, wxResp, nowReads, origin, caught, entered, prev>>

(***************************************************************************)
(* Lines 232-238: an exception reached get_weather_data.                   *)
(***************************************************************************)
ReturnError ==
    /\ pc = "except"
    /\ IF ExceptException(exc.type)
       THEN /\ result' = JsonDumps(ErrorResponse(exc, city_name, query_type))
            /\ caught' = Append(caught, "get_weather_data")
            /\ exc' = NoExc
            /\ UNCHANGED escaped
       ELSE /\ escaped' = TRUE
            /\ UNCHANGED <<result, caught, exc>>
    /\ pc' = "done"
    /\ UNCHANGED <<city_name, query_type, start_date, end_date, h_start,
                   h_end, location, data, clock, ticks, calls, geoResp,
                   wxResp, nowReads, origin, entered, prev>>

(***************************************************************************)
(* The tool under arbitrary calls.                                         *)
(***************************************************************************)
Next ==
    \/ Tick
    \/ Invoke
    \/ Dispatch
    \/ FetchCurrentResolve
    \/ FetchCurrentRequest
    \/ FetchHistoricalResolve
    \/ HistEndDefault
    \/ HistStartDefault
    \/ FetchHistoricalRequest
    \/ ReturnData
    \/ ReturnError

Spec == Init /\ [][Next]_vars

(***************************************************************************)
(* The tool called again with the arguments of the invocation that just    *)
(* returned (lines 192-198); prev keeps what that invocation was answered  *)
(* and what it returned.                                                   *)
(***************************************************************************)
RepeatQueryTypes == {QT_current, QT_historical, <<"F", "o", "r", "e", "c", "a", "s", "t">>}

InitRepeat ==
    /\ pc = "dispatch"
    /\ city_name = Rome
    /\ query_type \in RepeatQueryTypes
    /\ start_date \in {None, Strftime(4)}
    /\ end_date \in {None, Strftime(14)}
    /\ NoLocals
    /\ clock \in StartClocks
    /\ ticks = 0
    /\ prev = NoPrev

Reinvoke ==
    /\ pc = "done"
    /\ prev' = [set |-> TRUE, geo |-> geoResp, wx |-> wxResp, result |-> result]
    /\ UNCHANGED <<city_name, query_type, start_date, end_date>>
    /\ Enter

NextRepeat ==
    \/ Tick
    \/ Reinvoke
    \/ Dispatch
    \/ FetchCurrentResolve
    \/ FetchCurrentRequest
    \/ FetchHistoricalResolve
    \/ HistEndDefault
    \/ HistStartDefault
    \/ FetchHistoricalRequest
    \/ ReturnData
    \/ ReturnError

SpecRepeat == InitRepeat /\ [][NextRepeat]_vars

(***************************************************************************)
(* Vocabulary of the properties.                                           *)
(***************************************************************************)
\* get_weather_data has returned a string
Returned == pc = "done" /\ ~escaped

\* the returned string parsed back
Envelope == JsonLoads(result)

ErrorKeys == {"error", "city_name", "query_type"}

CurrentKeys == {"location", "current", "units", "timestamp"}

HistoricalKeys == {"location", "date_range", "daily", "units", "timestamp"}

IsErrorEnvelope(o) == DOMAIN o = ErrorKeys

IsWeatherEnvelope(o) == DOMAIN o = CurrentKeys \/ DOMAIN o = HistoricalKeys

\* an exception was raised somewhere in the invocation
Failed == origin.raised

WeatherEndpoints == {"forecast", "archive"}

WeatherCalled == \E i \in DOMAIN calls : calls[i].endpoint \in WeatherEndpoints

\* a and b are the same word up to the case of its letters
SameLetters(a, b) ==
    /\ Len(a) = Len(b)
    /\ \A i \in DOMAIN a :
          \/ a[i] = b[i]
          \/ \E k \in DOMAIN UpperLetters :
                {a[i], b[i]} = {UpperLetters[k], LowerLetters[k]}

\* the geocoding collaborator answered with zero matches
ZeroMatches ==
    /\ geoResp.fail = "none"
    /\ \/ "results" \notin DOMAIN geoResp.data
       \/ Len(geoResp.data["results"]) = 0

\* a step of the running invocation is possible
CanStep ==
    ENABLED (\/ Dispatch \/ FetchCurrentResolve \/ FetchCurrentRequest
             \/ FetchHistoricalResolve \/ HistEndDefault \/ HistStartDefault
             \/ FetchHistoricalRequest \/ ReturnData \/ ReturnError)

(***************************************************************************)
(* C1: whatever the arguments and whatever the collaborators answer, an    *)
(* invocation never hands an exception to its caller, is never stuck, and  *)
(* what it returns is a JSON object that parses to a weather envelope or   *)
(* to an error envelope.                                                   *)
(***************************************************************************)
C1_NeverThrows ==
    /\ ~escaped
    /\ pc \notin {"idle", "done"} => CanStep
    /\ pc = "done" =>
          /\ result # None
          /\ IsJsonObject(result)
          /\ IsWeatherEnvelope(Envelope) \/ IsErrorEnvelope(Envelope)

\* an empty city and a malformed date met an incomplete geocoding answer
C1_Witness ==
    /\ Returned
    /\ city_name = <<>>
    /\ end_date = MalformedDate
    /\ origin.type = "KeyError"
    /\ Len(calls) = 1
    /\ IsErrorEnvelope(Envelope)

(***************************************************************************)
(* C2: a query_type that lower-cases to neither "current" nor "historical" *)
(* ends in an error envelope, and no forecast or archive call is issued at *)
(* any point of that invocation.                                           *)
(***************************************************************************)
C2_InvalidTypeNoWeatherCall ==
    (pc # "idle" /\ Lower(query_type) \notin {QT_current, QT_historical}) =>
        /\ ~WeatherCalled
        /\ pc = "done" => Returned /\ IsErrorEnvelope(Envelope)

\* "currents" was rejected
C2_Witness ==
    /\ Returned
    /\ query_type = <<"c", "u", "r", "r", "e", "n", "t", "s">>
    /\ IsErrorEnvelope(Envelope)
    /\ calls = <<>>

(***************************************************************************)
(* C3: when the geocoding collaborator answers with zero matches (results  *)
(* absent or empty), the current and the historical query both end in an   *)
(* error envelope whose error text contains city_name, and no weather call *)
(* is issued.                                                              *)
(***************************************************************************)
C3_CityNotFound ==
    ZeroMatches =>
        /\ ~WeatherCalled
        /\ pc \in {"except", "done"}
        /\ pc = "done" =>
              /\ Returned
              /\ IsErrorEnvelope(Envelope)
              /\ Contains(Envelope["error"], city_name)

\* a historical query for Rome met an empty result list
C3_Witness ==
    /\ Returned
    /\ entered = "fetch_historical_weather"
    /\ city_name = Rome
    /\ "results" \in DOMAIN geoResp.data
    /\ ZeroMatches
    /\ Contains(Envelope["error"], Rome)

\* a historical query returned a weather envelope
HistoricalSucceeded ==
    /\ Returned
    /\ entered = "fetch_historical_weather"
    /\ ~Failed

\* date_range.start and date_range.end of the returned envelope
RangeStart == Item(Envelope["date_range"], "start")

RangeEnd == Item(Envelope["date_range"], "end")

\* the clock values datetime.now() read for the defaults of this invocation
ReadFor(site) == {nowReads[i].at : i \in {j \in DOMAIN nowReads : nowReads[j].site = site}}

(***************************************************************************)
(* C4: a successful historical fetch with both dates omitted returns       *)
(* date_range.end = yesterday and date_range.start = today minus 30 days   *)
(* for one and the same "now" read during the invocation, so that start is *)
(* exactly 29 days before end.                                             *)
(***************************************************************************)
C4_DefaultsFromSameNow ==
    (HistoricalSucceeded /\ start_date = None /\ end_date = None) =>
        \E i \in DOMAIN nowReads :
            /\ RangeEnd = Strftime(DayOf(nowReads[i].at) - 1)
            /\ RangeStart = Strftime(DayOf(nowReads[i].at) - 30)

(***************************************************************************)
(* C5 as stated: a successful historical fetch with end_date supplied and  *)
(* start_date omitted returns the supplied end_date verbatim as            *)
(* date_range.end.                                                         *)
(***************************************************************************)
C5_SuppliedEndVerbatim ==
    (HistoricalSucceeded /\ end_date # None /\ start_date = None) =>
        RangeEnd = end_date

(***************************************************************************)
(* C5 amended: with a non-empty end_date supplied and start_date omitted,  *)
(* the archive call carries the supplied end_date verbatim and, as start,  *)
(* the date 30 days before the clock value read for the default, whatever  *)
(* the end_date (no ordering check); a successful fetch returns the same   *)
(* two dates as date_range.                                                *)
(***************************************************************************)
C5_AsymmetricDefault ==
    (pc = "done" /\ entered = "fetch_historical_weather"
        /\ ~Falsy(end_date) /\ start_date = None /\ Len(calls) = 2) =>
        /\ ReadFor("end_date") = {}
        /\ \E t \in ReadFor("start_date") :
              /\ ReadFor("start_date") = {t}
              /\ t <= clock
              /\ calls[2].params.start_date = Strftime(DayOf(t) - 30)
        /\ calls[2].params.end_date = end_date
        /\ HistoricalSucceeded =>
              /\ RangeEnd = end_date
              /\ RangeStart = calls[2].params.start_date

\* end 2024-01-15 was supplied on 2024-03-01: the range 2024-01-31 ..
\* 2024-01-15 is inverted, was sent and was returned
C5_Witness ==
    /\ HistoricalSucceeded
    /\ start_date = None
    /\ end_date = Strftime(14)
    /\ calls[2].params.start_date = Strftime(30)
    /\ RangeStart = Strftime(30)
    /\ RangeEnd = Strftime(14)

(***************************************************************************)
(* C6: dispatch is case-insensitive.  Every letter-case variant of         *)
(* "current" enters fetch_current_weather, which calls the forecast        *)
(* endpoint and sends no date; every letter-case variant of "historical"   *)
(* enters fetch_historical_weather with the caller's start_date and        *)
(* end_date and calls the archive endpoint; every other value fails with   *)
(* the invalid-query-type error, whose text contains the value as          *)
(* supplied.                                                               *)
(***************************************************************************)
C6_CaseInsensitiveDispatch ==
    pc \notin {"idle", "dispatch"} =>
        IF SameLetters(query_type, QT_current)
        THEN /\ entered = "fetch_current_weather"
             /\ h_start = None /\ h_end = None
             /\ \A i \in DOMAIN calls :
                   /\ calls[i].endpoint \in {"geocoding", "forecast"}
                   /\ DOMAIN calls[i].params \cap {"start_date", "end_date"} = {}
        ELSE IF SameLetters(query_type, QT_historical)
        THEN /\ entered = "fetch_historical_weather"
             /\ pc = "hist_geo" => h_start = start_date /\ h_end = end_date
             /\ ~Falsy(start_date) => h_start = start_date
             /\ ~Falsy(end_date) => h_end = end_date
             /\ \A i \in DOMAIN calls : calls[i].endpoint \in {"geocoding", "archive"}
        ELSE /\ entered = "none"
             /\ calls = <<>>
             /\ origin = Exc("ValueError", InvalidQueryTypeMsg(query_type))
             /\ pc = "done" =>
                   /\ Returned
                   /\ IsErrorEnvelope(Envelope)
                   /\ Contains(Envelope["error"], query_type)

\* "hIsToRiCaL" reached the archive endpoint with the caller's dates
C6_Witness ==
    /\ Returned
    /\ query_type = <<"h", "I", "s", "T", "o", "R", "i", "C", "a", "L">>
    /\ start_date = Strftime(4)
    /\ end_date = Strftime(14)
    /\ Len(calls) = 2
    /\ calls[2].endpoint = "archive"
    /\ calls[2].params.start_date = start_date
    /\ calls[2].params.end_date = end_date

(***************************************************************************)
(* C7: an invocation issues at most two collaborator calls, geocoding      *)
(* first and then one weather call; the weather call is issued only after  *)
(* geocoding returned a match; no call is repeated; a failure of either    *)
(* call ends the invocation with an error envelope and no further call.    *)
(***************************************************************************)
ExchangeFailed(resp) == resp.fail \in {"get", "status", "json"}

C7_TwoCallsInOrder ==
    /\ Len(calls) <= 2
    /\ Len(calls) >= 1 => calls[1].endpoint = "geocoding"
    /\ (Len(calls) >= 1) = (geoResp # NoResponse)
    /\ (Len(calls) = 2) = (wxResp # NoResponse)
    /\ Len(calls) = 2 =>
          /\ calls[2].endpoint \in WeatherEndpoints
          /\ geoResp.fail = "none"
          /\ "results" \in DOMAIN geoResp.data
          /\ Len(geoResp.data["results"]) > 0
    /\ ExchangeFailed(geoResp) =>
          /\ Len(calls) = 1
          /\ pc \in {"except", "done"}
          /\ pc = "done" => Returned /\ IsErrorEnvelope(Envelope)
    /\ ExchangeFailed(wxResp) =>
          /\ pc \in {"except", "done"}
          /\ pc = "done" => Returned /\ IsErrorEnvelope(Envelope)

\* the forecast call failed after geocoding had matched
C7_Witness ==
    /\ Returned
    /\ Len(calls) = 2
    /\ calls[2].endpoint = "forecast"
    /\ wxResp.fail = "status"
    /\ IsErrorEnvelope(Envelope)

(***************************************************************************)
(* C8: the returned JSON has the key "error" exactly when the invocation   *)
(* failed; a failed invocation returns exactly error, city_name and        *)
(* query_type, the last two as the caller supplied them; a successful one  *)
(* returns the complete envelope of its query type and no error key.       *)
(***************************************************************************)
C8_ErrorKeyIffFailed ==
    pc = "done" =>
        /\ Returned
        /\ ("error" \in DOMAIN Envelope) = Failed
        /\ Failed =>
              /\ DOMAIN Envelope = ErrorKeys
              /\ Envelope["city_name"] = city_name
              /\ Envelope["query_type"] = query_type
        /\ ~Failed =>
              DOMAIN Envelope = (IF entered = "fetch_current_weather"
                                 THEN CurrentKeys ELSE HistoricalKeys)

\* "CURRENT" for Rome failed at the forecast endpoint
C8_Witness ==
    /\ Returned
    /\ Failed
    /\ city_name = Rome
    /\ query_type = <<"C", "U", "R", "R", "E", "N", "T">>
    /\ wxResp.fail = "get"
    /\ Envelope["query_type"] = query_type

\* an envelope without its timestamp
SansTimestamp(o) == [k \in DOMAIN o \ {"timestamp"} |-> o[k]]

\* an envelope without its timestamp and without its date_range
SansDates(o) == [k \in DOMAIN o \ {"timestamp", "date_range"} |-> o[k]]

\* the invocation that just returned was answered as the one before it
SameAnswers ==
    /\ pc = "done"
    /\ prev.set
    /\ prev.geo = geoResp
    /\ prev.wx = wxResp

PrevEnvelope == JsonLoads(prev.result)

(***************************************************************************)
(* C9 as stated: two invocations with identical arguments and identical    *)
(* collaborator answers return envelopes equal in every field except       *)
(* timestamp, also when the historical dates are defaulted.                *)
(***************************************************************************)
C9_IdenticalExceptTimestamp ==
    SameAnswers => SansTimestamp(Envelope) = SansTimestamp(PrevEnvelope)

(***************************************************************************)
(* C9 amended: two invocations with identical arguments and identical      *)
(* collaborator answers return envelopes equal in every field except       *)
(* timestamp and except each bound of date_range whose date was omitted    *)
(* (None or empty) and therefore defaulted from the clock; a bound         *)
(* supplied by the caller is equal in both.                                *)
(***************************************************************************)
C9_IdenticalExceptClockFields ==
    SameAnswers =>
        /\ SansDates(Envelope) = SansDates(PrevEnvelope)
        /\ "date_range" \in DOMAIN Envelope =>
              /\ ~Falsy(start_date) =>
                    RangeStart = Item(PrevEnvelope["date_range"], "start")
              /\ ~Falsy(end_date) =>
                    RangeEnd = Item(PrevEnvelope["date_range"], "end")

\* a historical query with only the end date supplied succeeded twice, on
\* different days: the end dates agree, the defaulted start dates do not
C9_Witness ==
    /\ SameAnswers
    /\ HistoricalSucceeded
    /\ start_date = None
    /\ end_date = Strftime(14)
    /\ RangeEnd = Item(PrevEnvelope["date_range"], "end")
    /\ RangeStart # Item(PrevEnvelope["date_range"], "start")
    /\ Envelope["timestamp"] # PrevEnvelope["timestamp"]

(***************************************************************************)
(* C10 as stated: the error text is the message of the exception first     *)
(* raised, unmodified, and get_weather_data is the only function that      *)
(* caught it.                                                              *)
(***************************************************************************)
C10_UnmodifiedSoleCatch ==
    (Returned /\ Failed) =>
        /\ Envelope["error"] = origin.msg
        /\ caught = <<"get_weather_data">>

(***************************************************************************)
(* C10 amended: the error text always ends with the message of the         *)
(* exception first raised.  A ValueError of a fetcher or of the dispatch   *)
(* (city not found, invalid query_type) reaches get_weather_data uncaught  *)
(* and unmodified.  Any other failure is caught once on the way, by the    *)
(* function whose try block it arose in, and re-raised with that           *)
(* function's prefix in front of the message: "Geocoding error: " by       *)
(* get_coordinates, "Weather API error: " by fetch_current_weather,        *)
(* "Historical weather API error: " by fetch_historical_weather; a fetcher *)
(* does not catch what get_coordinates raised.                             *)
(***************************************************************************)
C10_PrefixedOnce ==
    (Returned /\ Failed) =>
        IF origin.type = "ValueError"
        THEN /\ Envelope["error"] = origin.msg
             /\ caught = <<"get_weather_data">>
        ELSE IF Len(calls) = 1
        THEN /\ Envelope["error"] = GeocodingPrefix \o origin.msg
             /\ caught = <<"get_coordinates", "get_weather_data">>
        ELSE IF calls[2].endpoint = "forecast"
        THEN /\ Envelope["error"] = WeatherPrefix \o origin.msg
             /\ caught = <<"fetch_current_weather", "get_weather_data">>
        ELSE /\ Envelope["error"] = HistoricalPrefix \o origin.msg
             /\ caught = <<"fetch_historical_weather", "get_weather_data">>

\* a geocoding timeout surfaced as "Geocoding error: timeout"
C10_Witness ==
    /\ Returned
    /\ Failed
    /\ origin = Exc("ConnectionError", TimeoutMsg)
    /\ Len(calls) = 1
    /\ Envelope["error"] = GeocodingPrefix \o TimeoutMsg
    /\ caught = <<"get_coordinates", "get_weather_data">>

====
